---- MODULE Spec2Model ----
(***************************************************************************)
(* Browser (src/puppet-web/browser.ts): the lifecycle controller of one    *)
(* web-driver session.  The model follows every invocation of init() and   *)
(* quit() from its guard to its settlement.  An invocation is suspended at *)
(* each await of a driver, cookie or process-host promise; between two     *)
(* suspension points its code runs as one step.  Invocations interleave at *)
(* their suspension points, as the continuations of one event loop do.     *)
(* The driver, the cookie store and the process host are collaborators:    *)
(* each of their promises settles with an outcome the model chooses.       *)
(***************************************************************************)
EXTENDS Integers, Sequences, FiniteSets, TLC

\* number of init()/quit() invocations made on the Browser
MaxCalls == 3

\* let ttl = 3 (open)
TTL == 3

\* const max = 15 (clean)
CleanMax == 15

\* number of init()/quit() invocations made beside the liveness checks
LiveCalls == 2

\* `dead` events counted between two lifecycle calls
MaxEmit == 2

\* browser processes the process host can list
MaxPid == 2

Calls == 1..MaxCalls

VARIABLES
    target,     \* StateSwitch: the state asked for
    current,    \* StateSwitch: the state the browser is in or moving to
    inProcess,  \* StateSwitch: current was set with stable = false
    calls,      \* the frame of each init()/quit() invocation
    live,       \* the promise a readyLive() or execute() invocation awaits
    emitted,    \* `dead` events emitted since the last init() or quit() call
    lastDead,   \* the last dead() invocation
    result,     \* the last execute(), executeAsync() or readyLive() invocation
    cleaner     \* a clean() invocation followed enumeration by enumeration

vars == <<target, current, inProcess, calls, live, emitted, lastDead, result,
          cleaner>>

shared == <<target, current, inProcess>>

\* what init() and quit() never touch
aside == <<live, lastDead, result, cleaner>>

\* what a step of init() or quit() that sets no state leaves alone
kept == <<target, current, inProcess, emitted>>

(***************************************************************************)
(* StateSwitch                                                             *)
(***************************************************************************)
stable == target = current /\ ~inProcess

SetTarget(state) == target' = state

SetCurrent(state, isStable) == current' = state /\ inProcess' = ~isStable

(***************************************************************************)
(* Frames.  pc names the promise the invocation awaits; log lists the      *)
(* collaborator calls issued by the body being run (the init() head, the   *)
(* current open(), the current quit()); allFailed tells that every call of *)
(* the current quit() that has settled was rejected; cleanFailed tells     *)
(* that the clean() of the current quit() was rejected; err is the error   *)
(* init() caught; closeSeen tells that a quit() of another invocation set  *)
(* target to close while this init() was in process.  A settled invocation *)
(* keeps its outcome, and its log when it resolved.                        *)
(***************************************************************************)
OpenPCs == {"open_get", "open_close", "open_quit", "open_init",
            "open_finalClose", "open_finalQuit"}

QuitPCs == {"quit_close", "quit_quit", "clean_pidList", "clean_retry"}

Idle == [op |-> "none", pc |-> "idle", openNo |-> 0, ttl |-> 0, kill |-> FALSE,
         log |-> <<>>, allFailed |-> FALSE, cleanFailed |-> FALSE,
         closeSeen |-> FALSE, err |-> "none", outcome |-> "none"]

Update(s, c) == calls' = [calls EXCEPT ![s] = c]

Settle(c, res) ==
    [c EXCEPT !.pc = "done", !.outcome = res, !.openNo = 0, !.ttl = 0,
              !.kill = FALSE, !.closeSeen = FALSE]

Return(c) == Settle(c, "ok")

Throw(c, e) == Settle([c EXCEPT !.log = <<>>, !.cleanFailed = FALSE], e)

Started(s) ==
    /\ calls[s].pc = "idle"
    /\ \A r \in Calls : r < s => calls[r].pc # "idle"

(***************************************************************************)
(* quit()                                                                  *)
(***************************************************************************)
\* frame c runs the body of an init(), called as such or by restart()
InProcessInit(c) ==
    /\ c.pc \notin {"idle", "done"}
    /\ \/ c.op = "init"
       \/ c.op = "restart" /\ (c.pc \notin QuitPCs \/ c.err # "none")

\* mutant: the guard rejects only a quit() in process
QuitGuardInProcessOnly == current = "close" /\ inProcess

QuitGuard == current = "close"

QuitGuardError == IF inProcess THEN "quit: closing" ELSE "quit: closed"

\* quit() from its first line, run on frame c; e is the error init()
\* caught when quit() is the call of its catch block, "none" otherwise
QuitBody(s, c, e) ==
    IF QuitGuard
    THEN /\ Update(s, Throw([c EXCEPT !.err = e], QuitGuardError))
         /\ emitted' = 0
         /\ UNCHANGED shared
    ELSE /\ SetTarget("close")
         /\ SetCurrent("close", FALSE)
         /\ emitted' = 0
         /\ calls' = [r \in Calls |->
                IF r = s
                THEN [c EXCEPT !.pc = "quit_close", !.err = e,
                               !.log = <<"close">>, !.allFailed = TRUE,
                               !.cleanFailed = FALSE, !.openNo = 0, !.ttl = 0]
                ELSE IF InProcessInit(calls[r])
                THEN [calls[r] EXCEPT !.closeSeen = TRUE]
                ELSE calls[r]]

\* mutant: the commit is the last statement of the try block, not a finally
QuitFinallyUnlessFailed(s, c) ==
    /\ IF c.allFailed THEN UNCHANGED <<current, inProcess>>
                      ELSE SetCurrent("close", TRUE)
    /\ UNCHANGED <<target, emitted>>
    /\ Update(s, IF c.err = "none" THEN Return(c) ELSE Throw(c, c.err))

\* restart() after its quit() returned: cur and inproc are what quit()'s
\* finally block committed; then the test of restart() and the guard and
\* the first lines of init()
RestartInit(s, c, cur, inproc) ==
    IF cur = "open" /\ inproc
    THEN /\ SetCurrent(cur, ~inproc)
         /\ UNCHANGED <<target, emitted>>
         /\ Update(s, Return(c))
    ELSE IF cur = "open"
    THEN /\ SetCurrent(cur, ~inproc)
         /\ emitted' = 0
         /\ UNCHANGED target
         /\ Update(s, Throw(c, IF inproc THEN "init: opening" ELSE "init: open"))
    ELSE /\ SetTarget("open")
         /\ SetCurrent("open", FALSE)
         /\ emitted' = 0
         /\ Update(s, [c EXCEPT !.pc = "init_driverInit", !.kill = FALSE,
                                !.allFailed = FALSE, !.cleanFailed = FALSE,
                                !.log = <<"cookie.hostname", "init">>])

\* the finally block of quit(), and the return to its caller
QuitFinally(s, c) ==
    IF c.op = "restart" /\ c.err = "none"
    THEN RestartInit(s, c, "close", FALSE)
    ELSE /\ SetCurrent("close", TRUE)
         /\ UNCHANGED <<target, emitted>>
         /\ Update(s, IF c.err = "none" THEN Return(c) ELSE Throw(c, c.err))

\* mutant: a failure of driver.close() ends the try block
QuitCloseFailFast(s) ==
    /\ UNCHANGED aside
    /\ calls[s].pc = "quit_close"
    /\ \E ok \in BOOLEAN :
         IF ok
         THEN /\ Update(s, [calls[s] EXCEPT
                              !.pc = "quit_quit",
                              !.log = Append(@, "quit"),
                              !.allFailed = FALSE])
              /\ UNCHANGED kept
         ELSE QuitFinally(s, calls[s])

QuitClose(s) ==
    /\ UNCHANGED aside
    /\ calls[s].pc = "quit_close"
    /\ \E ok \in BOOLEAN :
         Update(s, [calls[s] EXCEPT
                      !.pc = "quit_quit",
                      !.log = Append(@, "quit"),
                      !.allFailed = @ /\ ~ok])
    /\ UNCHANGED kept

QuitQuit(s) ==
    /\ UNCHANGED aside
    /\ calls[s].pc = "quit_quit"
    /\ \E ok \in BOOLEAN :
         Update(s, [calls[s] EXCEPT
                      !.pc = "clean_retry",
                      !.kill = FALSE,
                      !.log = Append(@, "clean"),
                      !.allFailed = @ /\ ~ok])
    /\ UNCHANGED kept

(***************************************************************************)
(* clean(): retryPromise calls the enumeration up to max times; k is the   *)
(* first attempt at which the enumeration lists no browser (max + 1: none  *)
(* does).                                                                  *)
(***************************************************************************)
RECURSIVE Attempt(_, _, _)
Attempt(i, max, k) ==
    IF i = k THEN "resolved"
    ELSE IF i >= max THEN "rejected"
    ELSE Attempt(i + 1, max, k)

RetryPromise(max, k) == Attempt(1, max, k)

CleanRetry(s) ==
    /\ UNCHANGED aside
    /\ calls[s].pc = "clean_retry"
    /\ \E res \in {RetryPromise(CleanMax, k) : k \in 1..(CleanMax + 1)} :
         LET c == calls[s] IN
         IF res = "resolved"
         THEN QuitFinally(s, [c EXCEPT !.allFailed = FALSE])
         ELSE IF ~c.kill
         THEN /\ Update(s, [c EXCEPT !.pc = "clean_pidList", !.kill = TRUE,
                                     !.cleanFailed = TRUE,
                                     !.log = Append(@, "clean(kill)")])
              /\ UNCHANGED kept
         ELSE QuitFinally(s, c)

CleanPidList(s) ==
    /\ UNCHANGED aside
    /\ calls[s].pc = "clean_pidList"
    /\ \E ok \in BOOLEAN :
         LET c == calls[s] IN
         IF ok
         THEN /\ Update(s, [c EXCEPT !.pc = "clean_retry"])
              /\ UNCHANGED kept
         ELSE QuitFinally(s, c)

CallQuit(s) ==
    /\ UNCHANGED aside
    /\ Started(s)
    /\ QuitBody(s, [Idle EXCEPT !.op = "quit"], "none")

\* restart() up to the first await of its quit()
CallRestart(s) ==
    /\ UNCHANGED aside
    /\ Started(s)
    /\ QuitBody(s, [Idle EXCEPT !.op = "restart"], "none")

(***************************************************************************)
(* init() and open()                                                       *)
(***************************************************************************)
\* mutant: the guard rejects only the stable-open state
InitGuardStableOnly == current = "open" /\ ~inProcess

InitGuard == current = "open"

InitGuardError == IF inProcess THEN "init: opening" ELSE "init: open"

\* the catch block of init(): quit(), then throw err
InitCatch(s, c, e) == QuitBody(s, c, e)

TargetCheck == target # "open"

\* while (ttl--) and what follows it: the next get, or the final close
OpenLoop(c) ==
    IF c.ttl # 0
    THEN [c EXCEPT !.ttl = @ - 1, !.pc = "open_get", !.log = Append(@, "get")]
    ELSE [c EXCEPT !.ttl = @ - 1, !.pc = "open_finalClose",
                   !.log = Append(@, "close")]

\* open() up to its first await; hostname is what cookie.hostname() gave
OpenStart(s, c, n, hostname) ==
    IF n = 2 /\ ~hostname
    THEN InitCatch(s, [c EXCEPT !.log = <<"cookie.hostname">>], "hostname unknown")
    ELSE /\ Update(s, OpenLoop([c EXCEPT
                        !.openNo = n, !.ttl = TTL,
                        !.log = IF n = 2 THEN <<"cookie.hostname">> ELSE <<>>]))
         /\ UNCHANGED kept

\* open() resolved: the rest of init()'s try block
OpenReturn(s, c) ==
    IF c.openNo = 1
    THEN /\ Update(s, [c EXCEPT !.pc = "init_loadCookie", !.ttl = 0,
                                !.log = Append(@, "cookie.load")])
         /\ UNCHANGED kept
    ELSE IF TargetCheck
    THEN InitCatch(s, c, "target closed")
    ELSE /\ SetCurrent("open", TRUE)
         /\ UNCHANGED <<target, emitted>>
         /\ Update(s, Return(c))

\* mutant: the catch block retries without resetting the driver
OpenCatchNoReset(s, c) ==
    /\ Update(s, OpenLoop(c))
    /\ UNCHANGED kept

\* the catch block of open()'s loop
OpenCatch(s, c) ==
    /\ Update(s, [c EXCEPT !.pc = "open_close", !.log = Append(@, "close")])
    /\ UNCHANGED kept

\* mutant: the guard logs its error and does not throw it
CallInitNoThrow(s) ==
    /\ UNCHANGED aside
    /\ Started(s)
    /\ SetTarget("open")
    /\ SetCurrent("open", FALSE)
    /\ emitted' = 0
    /\ Update(s, [Idle EXCEPT !.op = "init", !.pc = "init_driverInit",
                              !.log = <<"cookie.hostname", "init">>])

CallInit(s) ==
    /\ UNCHANGED aside
    /\ Started(s)
    /\ IF InitGuard
       THEN /\ Update(s, Throw([Idle EXCEPT !.op = "init"], InitGuardError))
            /\ emitted' = 0
            /\ UNCHANGED shared
       ELSE /\ SetTarget("open")
            /\ SetCurrent("open", FALSE)
            /\ emitted' = 0
            /\ Update(s, [Idle EXCEPT !.op = "init", !.pc = "init_driverInit",
                                      !.log = <<"cookie.hostname", "init">>])

DriverInit(s) ==
    /\ UNCHANGED aside
    /\ calls[s].pc = "init_driverInit"
    /\ \E ok \in BOOLEAN :
         IF ok THEN OpenStart(s, calls[s], 1, TRUE)
               ELSE InitCatch(s, calls[s], "driver error")

\* driver.get() settles before the timer fires
Get(s) ==
    /\ UNCHANGED aside
    /\ calls[s].pc = "open_get"
    /\ \E ok \in BOOLEAN :
         IF ok THEN OpenReturn(s, calls[s]) ELSE OpenCatch(s, calls[s])

\* mutant: driver.get() is awaited alone, with no timer beside it
GetWithoutTimer(s) ==
    /\ UNCHANGED aside
    /\ calls[s].pc = "open_get"
    /\ FALSE
    /\ OpenCatch(s, calls[s])

\* the timer fires before driver.get() settles
GetTimeout(s) ==
    /\ UNCHANGED aside
    /\ calls[s].pc = "open_get"
    /\ OpenCatch(s, calls[s])

ResetClose(s) ==
    /\ UNCHANGED aside
    /\ calls[s].pc = "open_close"
    /\ \E ok \in BOOLEAN :
         IF ok
         THEN /\ Update(s, [calls[s] EXCEPT !.pc = "open_quit",
                                            !.log = Append(@, "quit")])
              /\ UNCHANGED kept
         ELSE InitCatch(s, calls[s], "driver error")

ResetQuit(s) ==
    /\ UNCHANGED aside
    /\ calls[s].pc = "open_quit"
    /\ \E ok \in BOOLEAN :
         IF ok
         THEN /\ Update(s, [calls[s] EXCEPT !.pc = "open_init",
                                            !.log = Append(@, "init")])
              /\ UNCHANGED kept
         ELSE InitCatch(s, calls[s], "driver error")

ResetInit(s) ==
    /\ UNCHANGED aside
    /\ calls[s].pc = "open_init"
    /\ \E ok \in BOOLEAN :
         IF ok
         THEN /\ Update(s, OpenLoop(calls[s]))
              /\ UNCHANGED kept
         ELSE InitCatch(s, calls[s], "driver error")

FinalClose(s) ==
    /\ UNCHANGED aside
    /\ calls[s].pc = "open_finalClose"
    /\ \E ok \in BOOLEAN :
         IF ok
         THEN /\ Update(s, [calls[s] EXCEPT !.pc = "open_finalQuit",
                                            !.log = Append(@, "quit")])
              /\ UNCHANGED kept
         ELSE InitCatch(s, calls[s], "driver error")

FinalQuit(s) ==
    /\ UNCHANGED aside
    /\ calls[s].pc = "open_finalQuit"
    /\ \E ok \in BOOLEAN :
         IF ok THEN InitCatch(s, calls[s], "ttl expired")
               ELSE InitCatch(s, calls[s], "driver error")

\* cookie.load() settles (its failure is caught), then open() without url
LoadCookie(s) ==
    /\ UNCHANGED aside
    /\ calls[s].pc = "init_loadCookie"
    /\ \E ok \in BOOLEAN, hostname \in BOOLEAN :
         OpenStart(s, calls[s], 2, hostname)

(***************************************************************************)
(* dead(), execute(), executeAsync() and readyLive().  lastDead describes  *)
(* the last dead() invocation: whether it was given a reason, what it      *)
(* returned and whether it emitted `dead`.  result describes the last      *)
(* execute(), executeAsync() or readyLive() invocation: what it returned   *)
(* or threw ("pending" while it awaits the driver) and how many script     *)
(* calls it made on the driver.                                            *)
(***************************************************************************)
\* this.driver is set by the constructor and never cleared
HasDriver == TRUE

NoDead == [called |-> FALSE, reason |-> FALSE, ret |-> FALSE, emit |-> FALSE]

NoResult == [op |-> "none", ret |-> "none", driverCalls |-> 0]

\* mutant: the event is emitted whenever the browser is found dead
DeadEmitsUnchecked(forceReason) ==
    IF target = "close" \/ current = "close"
    THEN [ret |-> TRUE, emit |-> FALSE]
    ELSE LET dead == forceReason \/ ~HasDriver IN
         [ret |-> dead, emit |-> dead]

\* dead(forceReason): what it returns, and whether it emits `dead`
Dead(forceReason) ==
    IF target = "close" \/ current = "close"
    THEN [ret |-> TRUE, emit |-> FALSE]
    ELSE LET dead == forceReason \/ ~HasDriver IN
         [ret |-> dead,
          emit |-> dead /\ target = "open" /\ current = "open" /\ stable]

Emit(r) ==
    /\ r.emit => emitted < MaxEmit
    /\ emitted' = IF r.emit THEN emitted + 1 ELSE emitted

\* one dead() invocation
DeadBody(forceReason) ==
    LET r == Dead(forceReason) IN
    /\ Emit(r)
    /\ lastDead' = [called |-> TRUE, reason |-> forceReason, ret |-> r.ret,
                    emit |-> r.emit]

DeadCall ==
    /\ \E forceReason \in BOOLEAN : DeadBody(forceReason)
    /\ UNCHANGED <<shared, calls, live, result, cleaner>>

\* mutant: the driver is asked without the dead() check
ExecuteBodyUnchecked(op, pc) ==
    /\ live' = pc
    /\ result' = [op |-> op, ret |-> "pending", driverCalls |-> 1]
    /\ UNCHANGED <<emitted, lastDead>>

\* execute() and executeAsync() up to the await of the driver's script call
ExecuteBody(op, pc) ==
    /\ DeadBody(FALSE)
    /\ IF Dead(FALSE).ret
       THEN /\ live' = "idle"
            /\ result' = [op |-> op, ret |-> "browser dead", driverCalls |-> 0]
       ELSE /\ live' = pc
            /\ result' = [op |-> op, ret |-> "pending", driverCalls |-> 1]

ExecuteCall ==
    /\ live = "idle"
    /\ ExecuteBody("execute", "execute_executeScript")
    /\ UNCHANGED <<shared, calls, cleaner>>

ExecuteAsyncCall ==
    /\ live = "idle"
    /\ ExecuteBody("executeAsync", "executeAsync_executeAsyncScript")
    /\ UNCHANGED <<shared, calls, cleaner>>

\* the script call settles: its value is returned, its error is rethrown
ExecuteSettle ==
    /\ live \in {"execute_executeScript", "executeAsync_executeAsyncScript"}
    /\ live' = "idle"
    /\ \E ok \in BOOLEAN :
         result' = [result EXCEPT !.ret = IF ok THEN "value" ELSE "driver error"]
    /\ UNCHANGED <<shared, calls, emitted, lastDead, cleaner>>

\* readyLive() up to the await of execute('return 1+1'); execute() makes
\* its own dead() check in the same step, on the same state
ReadyLiveCall ==
    /\ live = "idle"
    /\ DeadBody(FALSE)
    /\ IF Dead(FALSE).ret
       THEN /\ live' = "idle"
            /\ result' = [op |-> "readyLive", ret |-> "false", driverCalls |-> 0]
       ELSE /\ live' = "readyLive_execute"
            /\ result' = [op |-> "readyLive", ret |-> "pending",
                          driverCalls |-> 1]
    /\ UNCHANGED <<shared, calls, cleaner>>

\* mutant: a failed probe marks the session closed
ReadyLiveSettleClosing ==
    /\ live = "readyLive_execute"
    /\ live' = "idle"
    /\ \E two \in {"2", "other", "throw"} :
         IF two = "2"
         THEN /\ result' = [result EXCEPT !.ret = "true"]
              /\ UNCHANGED shared
         ELSE /\ result' = [result EXCEPT !.ret = "false"]
              /\ SetCurrent("close", TRUE)
              /\ UNCHANGED target
    /\ UNCHANGED <<calls, emitted, lastDead, cleaner>>

\* the probe settles: with 2, with another value, or with an exception
ReadyLiveSettle ==
    /\ live = "readyLive_execute"
    /\ live' = "idle"
    /\ \E two \in {"2", "other", "throw"} :
         IF two = "2"
         THEN /\ result' = [result EXCEPT !.ret = "true"]
              /\ UNCHANGED <<emitted, lastDead>>
         ELSE /\ result' = [result EXCEPT !.ret = "false"]
              /\ DeadBody(TRUE)
    /\ UNCHANGED <<shared, calls, cleaner>>

(***************************************************************************)
(* clean(kill) followed alone, one enumeration of the process host at a    *)
(* time.  pidList is the enumeration clean(true) starts with, failing the  *)
(* pids for which process.kill() throws, signals the pids process.kill()   *)
(* was called for, attempt the number of the polling enumeration awaited   *)
(* (0: none was made yet).                                                 *)
(***************************************************************************)
Pids == 1..MaxPid

\* the lists getBrowserPidList() can return
PidLists ==
    {l \in UNION {[1..n -> Pids] : n \in 0..MaxPid} :
        \A i, j \in DOMAIN l : i # j => l[i] # l[j]}

NoClean ==
    [pc |-> "idle", kill |-> FALSE, pidList |-> <<>>, failing |-> {},
     signals |-> <<>>, attempt |-> 0, outcome |-> "none"]

\* mutant: the first process.kill() that throws ends the forEach
RECURSIVE KillUntilFailure(_, _)
KillUntilFailure(pidList, failing) ==
    IF pidList = <<>> THEN <<>>
    ELSE IF Head(pidList) \in failing THEN <<Head(pidList)>>
    ELSE <<Head(pidList)>> \o KillUntilFailure(Tail(pidList), failing)

\* pidList.forEach(pid => try process.kill(pid) catch warn): the pids signalled
RECURSIVE KillAll(_, _)
KillAll(pidList, failing) ==
    IF pidList = <<>> THEN <<>>
    ELSE <<Head(pidList)>> \o KillAll(Tail(pidList), failing)

\* clean(kill) up to its first await
CleanCall ==
    /\ cleaner.pc = "idle"
    /\ \E kill \in BOOLEAN :
         cleaner' = IF kill
                    THEN [NoClean EXCEPT !.pc = "clean_pidList", !.kill = TRUE]
                    ELSE [NoClean EXCEPT !.pc = "clean_poll", !.attempt = 1]
    /\ UNCHANGED <<shared, calls, live, emitted, lastDead, result>>

\* the enumeration of clean(true) settles; the signals; the first poll starts
CleanEnumerated ==
    /\ cleaner.pc = "clean_pidList"
    /\ \/ cleaner' = [cleaner EXCEPT !.pc = "done", !.outcome = "rejected"]
       \/ \E pidList \in PidLists, failing \in SUBSET Pids :
            cleaner' = [cleaner EXCEPT
                          !.pc = "clean_poll",
                          !.pidList = pidList,
                          !.failing = failing \cap {pidList[i] : i \in DOMAIN pidList},
                          !.signals = KillAll(pidList, failing),
                          !.attempt = 1]
    /\ UNCHANGED <<shared, calls, live, emitted, lastDead, result>>

\* a polling enumeration settles: no browser, or some (or no list at all)
CleanPoll ==
    /\ cleaner.pc = "clean_poll"
    /\ \E found \in BOOLEAN :
         cleaner' =
            IF ~found
            THEN [cleaner EXCEPT !.pc = "done", !.outcome = "resolved"]
            ELSE IF cleaner.attempt >= CleanMax
            THEN [cleaner EXCEPT !.pc = "done", !.outcome = "rejected"]
            ELSE [cleaner EXCEPT !.attempt = @ + 1]
    /\ UNCHANGED <<shared, calls, live, emitted, lastDead, result>>

(***************************************************************************)
(* Specifications                                                          *)
(***************************************************************************)
Init ==
    /\ target = "close"
    /\ current = "close"
    /\ inProcess = FALSE
    /\ calls = [s \in Calls |-> Idle]
    /\ live = "idle"
    /\ emitted = 0
    /\ lastDead = NoDead
    /\ result = NoResult
    /\ cleaner = NoClean

\* init() and quit() called and interleaved at will
Next ==
    \E s \in Calls :
        \/ CallInit(s)
        \/ CallQuit(s)
        \/ DriverInit(s)
        \/ Get(s)
        \/ GetTimeout(s)
        \/ ResetClose(s)
        \/ ResetQuit(s)
        \/ ResetInit(s)
        \/ FinalClose(s)
        \/ FinalQuit(s)
        \/ LoadCookie(s)
        \/ QuitClose(s)
        \/ QuitQuit(s)
        \/ CleanRetry(s)
        \/ CleanPidList(s)

Spec == Init /\ [][Next]_vars

\* init(), quit() and restart() called and interleaved at will
NextRestart ==
    \E s \in Calls :
        \/ CallInit(s)
        \/ CallQuit(s)
        \/ CallRestart(s)
        \/ DriverInit(s)
        \/ Get(s)
        \/ GetTimeout(s)
        \/ ResetClose(s)
        \/ ResetQuit(s)
        \/ ResetInit(s)
        \/ FinalClose(s)
        \/ FinalQuit(s)
        \/ LoadCookie(s)
        \/ QuitClose(s)
        \/ QuitQuit(s)
        \/ CleanRetry(s)
        \/ CleanPidList(s)

SpecRestart == Init /\ [][NextRestart]_vars

\* init() and quit() with a timer that fires and a driver whose close(),
\* quit() and init() settle; driver.get(), cookie.load() and the process
\* host may never settle
NextFair ==
    \E s \in 1..LiveCalls :
        \/ CallInit(s)
        \/ CallQuit(s)
        \/ DriverInit(s)
        \/ Get(s)
        \/ GetTimeout(s)
        \/ ResetClose(s)
        \/ ResetQuit(s)
        \/ ResetInit(s)
        \/ FinalClose(s)
        \/ FinalQuit(s)
        \/ LoadCookie(s)
        \/ QuitClose(s)
        \/ QuitQuit(s)
        \/ CleanRetry(s)
        \/ CleanPidList(s)

Fairness ==
    \A s \in 1..LiveCalls :
        /\ WF_vars(GetTimeout(s))
        /\ WF_vars(DriverInit(s))
        /\ WF_vars(ResetClose(s))
        /\ WF_vars(ResetQuit(s))
        /\ WF_vars(ResetInit(s))
        /\ WF_vars(FinalClose(s))
        /\ WF_vars(FinalQuit(s))
        /\ WF_vars(QuitClose(s))
        /\ WF_vars(QuitQuit(s))

SpecFair == Init /\ [][NextFair]_vars /\ Fairness

\* one clean() invocation
NextClean ==
    \/ CleanCall
    \/ CleanEnumerated
    \/ CleanPoll

SpecClean == Init /\ [][NextClean]_vars

\* a session brought up and down, with dead(), execute(), executeAsync()
\* and readyLive() called at will
NextLive ==
    \/ \E s \in 1..LiveCalls :
         \/ CallInit(s)
         \/ CallQuit(s)
         \/ DriverInit(s)
         \/ Get(s)
         \/ GetTimeout(s)
         \/ ResetClose(s)
         \/ ResetQuit(s)
         \/ ResetInit(s)
         \/ FinalClose(s)
         \/ FinalQuit(s)
         \/ LoadCookie(s)
         \/ QuitClose(s)
         \/ QuitQuit(s)
         \/ CleanRetry(s)
         \/ CleanPidList(s)
    \/ DeadCall
    \/ ExecuteCall
    \/ ExecuteAsyncCall
    \/ ExecuteSettle
    \/ ReadyLiveCall
    \/ ReadyLiveSettle

SpecLive == Init /\ [][NextLive]_vars

TypeOK ==
    /\ target \in {"open", "close"}
    /\ current \in {"open", "close"}
    /\ inProcess \in BOOLEAN
    /\ live \in {"idle", "readyLive_execute", "execute_executeScript",
                "executeAsync_executeAsyncScript"}
    /\ lastDead \in [called : BOOLEAN, reason : BOOLEAN, ret : BOOLEAN,
                    emit : BOOLEAN]
    /\ result.op \in {"none", "execute", "executeAsync", "readyLive"}
    /\ result.ret \in {"none", "pending", "true", "false", "value",
                      "browser dead", "driver error"}
    /\ result.driverCalls \in 0..1
    /\ (result.ret = "pending") = (live # "idle")
    /\ cleaner.pc \in {"idle", "clean_pidList", "clean_poll", "done"}
    /\ cleaner.pidList \in PidLists
    /\ cleaner.attempt \in 0..CleanMax
    /\ emitted \in 0..MaxEmit
    /\ \A s \in Calls : calls[s].ttl \in -1..TTL

(***************************************************************************)
(* Steps and traces the properties speak of                                *)
(***************************************************************************)
InitCalled(s) == calls[s].pc = "idle" /\ calls'[s].op = "init"

QuitCalled(s) == calls[s].pc = "idle" /\ calls'[s].op = "quit"

\* the call was rejected at once, with error e, and did nothing else
RejectedAtGuard(s, e) ==
    /\ calls'[s].pc = "done"
    /\ calls'[s].outcome = e
    /\ calls'[s].log = <<>>
    /\ UNCHANGED shared

\* a quit() that passed its guard finishes (as a call, or inside init())
QuitFinishes(s) == calls[s].pc \in QuitPCs /\ calls'[s].pc = "done"

\* a quit() call settles, rejected at its guard or finished
QuitSettles(s) ==
    calls[s].pc # "done" /\ calls'[s].pc = "done" /\ calls'[s].op = "quit"

\* init() rejects after it passed its guard
InitFails(s) ==
    /\ InProcessInit(calls[s])
    /\ calls'[s].pc = "done"
    /\ calls'[s].outcome # "ok"

\* open() resolves: its get succeeded
OpenResolves(s) == calls[s].pc = "open_get" /\ calls'[s].pc \notin OpenPCs

\* open() rejects: init() catches a driver error or the expired ttl
OpenRejects(s) ==
    /\ calls[s].pc \in OpenPCs
    /\ calls'[s].err \in {"driver error", "ttl expired"}

\* the second open() of init() resolved: init() is at its target check
AtCommitPoint(s) == OpenResolves(s) /\ calls[s].openNo = 2

IsDriverCall(x) == x \in {"get", "close", "quit", "init"}

DriverLog(log) == SelectSeq(log, IsDriverCall)

IsGet(x) == x = "get"

GetCount(log) == Len(SelectSeq(log, IsGet))

\* three attempts, each followed by a full reset, then the final close and quit
FullTrace ==
    <<"get", "close", "quit", "init", "get", "close", "quit", "init",
      "get", "close", "quit", "init", "close", "quit">>

IsPrefix(a, b) == Len(a) <= Len(b) /\ a = SubSeq(b, 1, Len(a))

C3_QuitCommitsClose ==
    [][\A s \in Calls :
        QuitFinishes(s) => current' = "close" /\ ~inProcess'
      ]_vars

\* a quit() call has resolved although each of its four calls was rejected
C3_Witness ==
    \E s \in Calls :
        /\ calls[s].op = "quit"
        /\ calls[s].pc = "done"
        /\ calls[s].outcome = "ok"
        /\ calls[s].allFailed
        /\ calls[s].log = <<"close", "quit", "clean", "clean(kill)">>
        /\ current = "close"
        /\ ~inProcess

(***************************************************************************)
(* C4 (as stated): when init() rejects after its guard, it rejects with    *)
(* the failure it caught, and at that step current = close and             *)
(* inProcess = false.                                                      *)
(***************************************************************************)
C4_InitFailureQuitsThenRethrows ==
    [][\A s \in Calls :
        InitFails(s) =>
            /\ calls'[s].outcome = calls'[s].err
            /\ current' = "close"
            /\ ~inProcess'
      ]_vars

(***************************************************************************)
(* C5 (as stated): an init() that reaches its target check after a quit()  *)
(* of another invocation set target to close rejects with the              *)
(* concurrent-close error and does not commit current = open.              *)
(***************************************************************************)
C5_ConcurrentCloseAborts ==
    [][\A s \in Calls :
        (AtCommitPoint(s) /\ calls[s].closeSeen) =>
            /\ calls'[s].pc = "done"
            /\ calls'[s].outcome = "target closed"
      ]_vars

(***************************************************************************)
(* C6: init() called while current = open, stable or in process, is        *)
(* rejected, issues no driver or cookie call, and leaves target, current   *)
(* and inProcess as they were.                                             *)
(***************************************************************************)
C6_InitWhileOpenRejected ==
    [][\A s \in Calls :
        (InitCalled(s) /\ current = "open") =>
            RejectedAtGuard(s, IF inProcess THEN "init: opening" ELSE "init: open")
      ]_vars

\* init() was rejected once during an init() and once on the open session
C6_Witness ==
    \E s, r \in Calls :
        /\ calls[s].op = "init" /\ calls[s].outcome = "init: opening"
        /\ calls[r].op = "init" /\ calls[r].outcome = "init: open"
        /\ calls[r].log = <<>>
        /\ stable /\ current = "open"

(***************************************************************************)
(* C7: quit() called on the stable-close state is rejected, issues no      *)
(* driver call and no process enumeration, and leaves the state as it was; *)
(* and a quit() call that settles leaves a state in which the guard of     *)
(* quit() rejects, so that a quit() called right after it is rejected.     *)
(***************************************************************************)
C7_QuitWhileClosedRejected ==
    [][\A s \in Calls :
        /\ (QuitCalled(s) /\ current = "close" /\ stable)
              => RejectedAtGuard(s, "quit: closed")
        /\ QuitSettles(s) => QuitGuard'
      ]_vars

\* a quit() resolved, and the quit() called after it was rejected
C7_Witness ==
    \E r, s \in Calls :
        /\ r < s
        /\ calls[r].op = "quit" /\ calls[r].outcome = "ok"
        /\ calls[s].op = "quit" /\ calls[s].outcome = "quit: closed"
        /\ calls[s].log = <<>>

(***************************************************************************)
(* C8 (as stated): an open() whose get attempts all fail rejects only      *)
(* after exactly 3 get calls, with close, quit, init between every two of  *)
(* them, and never issues a 4th get.                                       *)
(***************************************************************************)
C8_OpenRejectsAfterThreeGets ==
    [][\A s \in Calls :
        OpenRejects(s) =>
            /\ GetCount(calls[s].log) = TTL
            /\ IsPrefix(DriverLog(calls[s].log), FullTrace)
      ]_vars

(***************************************************************************)
(* C9 (as stated): an open() whose first k gets fail and whose get k+1     *)
(* succeeds (k = 0, 1, 2) resolves after exactly k+1 get calls and k       *)
(* resets; and an init() whose last open() resolves with k = 2 ends with   *)
(* the state stable-open.                                                  *)
(***************************************************************************)
OpenResolvedAfterResets(s) ==
    LET k == GetCount(calls[s].log) - 1 IN
    /\ k \in 0..(TTL - 1)
    /\ DriverLog(calls[s].log) = SubSeq(FullTrace, 1, 4 * k + 1)

EndsStableOpen(s) ==
    /\ calls'[s].pc = "done"
    /\ calls'[s].outcome = "ok"
    /\ current' = "open"
    /\ stable'

C10_AtMostOneDeadEvent == emitted <= 1

(***************************************************************************)
(* Steps of the liveness operations                                        *)
(***************************************************************************)
\* a dead() invocation returned, alone or inside another operation
DeadReturned == lastDead' # lastDead

\* execute(), executeAsync() or readyLive() was called
LiveCalled == live = "idle" /\ (live' # "idle" \/ result' # result)

\* the driver's script call of a pending invocation settled
LiveSettled == live # "idle" /\ live' = "idle"

\* the last readyLive() returned false after its probe gave another value
ProbeFailed ==
    /\ result.op = "readyLive"
    /\ result.ret = "false"
    /\ result.driverCalls = 1

(***************************************************************************)
(* C11 (as stated): after a readyLive() whose probe gave a value other     *)
(* than 2 (or threw) returned false on a stable-open session, a dead()     *)
(* check made with no reason reports the session dead.                     *)
(***************************************************************************)
C11_FailedProbeReportsDead ==
    [][(ProbeFailed /\ current = "open" /\ stable
          /\ DeadReturned /\ ~lastDead'.reason) => lastDead'.ret]_vars

(***************************************************************************)
(* C12: a `dead` event is emitted only when target = open, current = open  *)
(* and stable; a dead() made when target = close or current = close        *)
(* returns true and emits nothing; a dead(reason) made while an init() is  *)
(* in process returns true and emits nothing.                              *)
(***************************************************************************)
C12_DeadEmitsOnlyStableOpen ==
    [][/\ emitted' > emitted => target = "open" /\ current = "open" /\ stable
       /\ DeadReturned =>
            /\ lastDead'.emit = (emitted' = emitted + 1)
            /\ (target = "close" \/ current = "close")
                  => lastDead'.ret /\ ~lastDead'.emit
            /\ (current = "open" /\ inProcess /\ lastDead'.reason)
                  => lastDead'.ret /\ ~lastDead'.emit
      ]_vars

\* dead(reason) returned true without an event while an init() is in process
C12_Witness ==
    /\ current = "open"
    /\ inProcess
    /\ lastDead.called /\ lastDead.reason /\ lastDead.ret /\ ~lastDead.emit
    /\ emitted = 0
    /\ \E s \in Calls : InProcessInit(calls[s])

(***************************************************************************)
(* C13: execute(), executeAsync() and readyLive() called when target =     *)
(* close or current = close make no driver call: the first two reject with *)
(* the browser-dead error and readyLive() returns false.  Called in any    *)
(* other state they make exactly one script call on the driver; execute()  *)
(* and executeAsync() settle with its value or with its error, readyLive() *)
(* with true or false.                                                     *)
(***************************************************************************)
C13_DeadSkipsDriver ==
    [][/\ LiveCalled =>
            IF target = "close" \/ current = "close"
            THEN /\ live' = "idle"
                 /\ result'.driverCalls = 0
                 /\ result'.ret = IF result'.op = "readyLive" THEN "false"
                                  ELSE "browser dead"
            ELSE /\ live' # "idle"
                 /\ result'.driverCalls = 1
                 /\ result'.ret = "pending"
       /\ LiveSettled =>
            /\ result'.op = result.op
            /\ result'.driverCalls = 1
            /\ result'.ret \in (IF result.op = "readyLive"
                                THEN {"true", "false"}
                                ELSE {"value", "driver error"})
      ]_vars

\* executeAsync() made one script call and rejected with the driver's error
C13_Witness ==
    /\ result.op = "executeAsync"
    /\ result.ret = "driver error"
    /\ result.driverCalls = 1
    /\ live = "idle"

(***************************************************************************)
(* C20: every step of dead(), readyLive(), execute() and executeAsync()    *)
(* leaves target, current and inProcess unchanged, also when the probe     *)
(* fails, when the driver call throws and when `dead` is emitted; a step   *)
(* that changes one of them is a step of an init() or quit() invocation.   *)
(***************************************************************************)
C20_LivenessKeepsState ==
    [][/\ (DeadReturned \/ result' # result \/ live' # live
             \/ emitted' > emitted) => UNCHANGED shared
       /\ shared' # shared =>
            \E s \in Calls : calls'[s] # calls[s] /\ calls'[s].op \in {"init", "quit"}
      ]_vars

\* a failed probe emitted `dead` and the session is still stable-open
C20_Witness ==
    /\ ProbeFailed
    /\ lastDead.reason /\ lastDead.emit
    /\ emitted = 1
    /\ target = "open" /\ current = "open" /\ stable

(***************************************************************************)
(* C14 (as stated): restart() invokes init() only when, at the return of   *)
(* its quit(), the state is target = close, current = close and inProcess  *)
(* = false.  quit()'s finally block has just set current = close and       *)
(* inProcess = false, so the state is that one exactly when target is      *)
(* close.                                                                  *)
(***************************************************************************)
RestartInvokesInit(s) ==
    /\ calls[s].op = "restart"
    /\ calls[s].pc \in QuitPCs
    /\ calls[s].err = "none"
    /\ calls'[s].pc = "init_driverInit"

C14_RestartInitOnlyStableClosed ==
    [][\A s \in Calls : RestartInvokesInit(s) => target = "close"]_vars

(***************************************************************************)
(* C15: a quit() that passes its guard has target = close, current = close *)
(* and inProcess set when its first driver call, close(), is issued;       *)
(* quit() follows close() and clean() follows quit() whatever their        *)
(* outcomes; clean(true) is called once, when clean() was rejected, and    *)
(* never otherwise; a quit() call that passed its guard resolves.          *)
(***************************************************************************)
QuitTrace == <<"close", "quit", "clean", "clean(kill)">>

QuitPassesGuard(s) == calls[s].pc \notin QuitPCs /\ calls'[s].pc \in QuitPCs

C15_QuitOrder ==
    [][\A s \in Calls :
        LET c == calls[s]
            d == calls'[s]
        IN
        /\ QuitPassesGuard(s) =>
              /\ target' = "close" /\ current' = "close" /\ inProcess'
              /\ d.pc = "quit_close"
              /\ d.log = SubSeq(QuitTrace, 1, 1)
        /\ (c.pc = "quit_close" /\ d.pc # c.pc) =>
              d.pc = "quit_quit" /\ d.log = SubSeq(QuitTrace, 1, 2)
        /\ (c.pc = "quit_quit" /\ d.pc # c.pc) =>
              d.pc = "clean_retry" /\ ~d.kill /\ d.log = SubSeq(QuitTrace, 1, 3)
        /\ (c.pc = "clean_retry" /\ ~c.kill /\ d.pc # c.pc) =>
              \/ d.pc = "done"
              \/ d.pc = "clean_pidList" /\ d.cleanFailed /\ d.log = QuitTrace
        /\ (c.pc \in {"clean_pidList", "clean_retry"} /\ c.kill /\ d.pc # c.pc) =>
              /\ c.cleanFailed /\ c.log = QuitTrace
              /\ d.pc = "done" \/ (d.pc = "clean_retry" /\ d.log = c.log)
        /\ (QuitFinishes(s) /\ c.op = "quit") =>
              /\ d.outcome = "ok"
              /\ d.log = SubSeq(QuitTrace, 1, IF d.cleanFailed THEN 4 ELSE 3)
      ]_vars

\* a quit() resolved after clean() was rejected and clean(true) resolved
C15_Witness ==
    \E s \in Calls :
        /\ calls[s].op = "quit"
        /\ calls[s].outcome = "ok"
        /\ calls[s].cleanFailed
        /\ ~calls[s].allFailed
        /\ calls[s].log = QuitTrace

(***************************************************************************)
(* C16 (as stated): an open() that has begun its loop rejects only when    *)
(* its attempts are consumed, that is after the loop, from its final       *)
(* close() and quit(); no failure of the get, close, quit or init of an    *)
(* attempt makes it reject.                                                *)
(***************************************************************************)
C16_OpenRejectsOnlyWhenExhausted ==
    [][\A s \in Calls :
        OpenRejects(s) =>
            /\ calls[s].pc \in {"open_finalClose", "open_finalQuit"}
            /\ calls[s].ttl = -1
      ]_vars

(***************************************************************************)
(* C17: clean(true) calls process.kill() for every pid of the enumeration  *)
(* it starts with, in one stretch, before its first polling enumeration;   *)
(* a process.kill() that throws neither ends the signals nor rejects       *)
(* clean(); clean(false) sends no signal.                                  *)
(***************************************************************************)
C17_KillSignalsEveryPid ==
    [][/\ cleaner'.signals # cleaner.signals =>
            cleaner.pc = "clean_pidList" /\ cleaner.kill /\ cleaner.attempt = 0
       /\ (cleaner.pc = "clean_pidList" /\ cleaner'.pc # "done") =>
            /\ cleaner'.signals = cleaner'.pidList
            /\ cleaner'.pc = "clean_poll"
            /\ cleaner'.attempt = 1
       /\ (cleaner.pc = "clean_pidList" /\ cleaner'.pc = "done") =>
            cleaner'.failing = {} /\ cleaner'.signals = <<>>
       /\ ~cleaner'.kill => cleaner'.signals = <<>>
      ]_vars

\* both pids were signalled although the first process.kill() threw, and
\* clean(true) awaits its first polling enumeration
C17_Witness ==
    /\ cleaner.kill
    /\ cleaner.pc = "clean_poll"
    /\ cleaner.attempt = 1
    /\ Len(cleaner.pidList) = MaxPid
    /\ cleaner.pidList[1] \in cleaner.failing
    /\ cleaner.signals = cleaner.pidList

(***************************************************************************)
(* C18 (as stated): with a timer that fires and a driver whose close(),    *)
(* quit() and init() settle, every open() eventually resolves or rejects,  *)
(* also when driver.get() never settles, and every init() eventually       *)
(* resolves or rejects.                                                    *)
(***************************************************************************)
OpenSettles(s) == (calls[s].pc \in OpenPCs) ~> (calls[s].pc \notin OpenPCs)

InitSettles(s) == InProcessInit(calls[s]) ~> (calls[s].pc = "done")

C18_OpenAndInitSettle ==
    \A s \in 1..LiveCalls : OpenSettles(s) /\ InitSettles(s)

(***************************************************************************)
(* C18 (amended): under the same conditions every open() eventually        *)
(* resolves or rejects; every init() eventually resolves or rejects when,  *)
(* besides, cookie.load() and the enumerations of the process host made    *)
(* by clean() settle.                                                      *)
(***************************************************************************)
AwaitsCookieOrHost(s) ==
    calls[s].pc \in {"init_loadCookie", "clean_retry", "clean_pidList"}

C18_OpenSettlesInitIfHostSettles ==
    \A s \in 1..LiveCalls :
        /\ OpenSettles(s)
        /\ ([]<>(~AwaitsCookieOrHost(s))) => InitSettles(s)

\* init() rejected after its open() used up its attempts
C18_Witness ==
    \E s \in 1..LiveCalls :
        /\ calls[s].op = "init"
        /\ calls[s].pc = "done"
        /\ calls[s].outcome = "ttl expired"

(***************************************************************************)
(* C19 (as stated): at most one init() invocation at a time is between     *)
(* its guard and the end of its driver.init(), open(), cookie.load(),      *)
(* open() sequence, however init() and quit() calls interleave.            *)
(***************************************************************************)
InitBodyPCs == {"init_driverInit", "init_loadCookie"} \cup OpenPCs

C19_AtMostOneInitBody ==
    Cardinality({s \in Calls : calls[s].op = "init"
                                 /\ calls[s].pc \in InitBodyPCs}) <= 1
====
